---------------------------- MODULE Spec2Model ----------------------------
(***************************************************************************)
(* Model of src/addUpTo.js: a script that, for every value of a fixed     *)
(* list, times an iterative summation and the closed form n(n+1)/2 with   *)
(* measureExecTime, prints the time difference with the faster method and *)
(* prints whether the two results agree.                                  *)
(*                                                                         *)
(* Numbers.  A JavaScript Number is an IEEE-754 double: every arithmetic  *)
(* result is rounded to a 53-bit significand, ties to even.  TLC's         *)
(* integers are 32 bits wide, so the model keeps the rounding rule and     *)
(* scales the significand to MantBits bits (Fl below); the tested values   *)
(* are scaled with it: like the source's list they stay below              *)
(* 2^significand (so i++ is exact and the loop ends) while the sums of the *)
(* larger ones leave the exactly representable range.                      *)
(*                                                                         *)
(* Time.  performance.now() is a monotonic clock.  Readings are counted in *)
(* ticks, TicksPerMicro ticks to the microsecond; the rounding error of    *)
(* (end - start) / 1000 itself is not modelled.                            *)
(***************************************************************************)
EXTENDS Integers, Sequences, FiniteSets, TLC

VARIABLES
    values,           \* the array TESTED_VALUES.forEach iterates over
    idx,              \* forEach: 1-based index of the element being processed
    pc,               \* position of the script
    func,             \* measureExecTime: the function being measured
    now,              \* last reading of performance.now(), in ticks
    start,            \* measureExecTime: const start
    n,                \* sumIterative: parameter n
    i,                \* sumIterative: loop counter
    total,            \* sumIterative: running total
    result,           \* measureExecTime: const result
    iterativeResult,  \* callback: const iterativeResult
    formulaResult,    \* callback: const formulaResult
    timeDifference,   \* callback: the toFixed(6) string, as its value in 10^-6 s
    fasterMethod,     \* callback: const fasterMethod
    out,              \* the console: one record per console.log
    calls,            \* history: calls and returns of the measured functions
    bodyRuns          \* history: executions of the loop body in this call

vars == <<values, idx, pc, func, now, start, n, i, total, result,
          iterativeResult, formulaResult, timeDifference, fasterMethod,
          out, calls, bodyRuns>>

-----------------------------------------------------------------------------
(* Bounds of the model *)

\* Width of the significand of a Number in the model (53 in IEEE-754).
MantBits == 5

\* Largest argument of the function-level specification FnSpec.
MaxN == 20

\* Most ticks the clock advances between two readings.
MaxElapsed == 3

\* Clock ticks per microsecond (the sixth decimal of a second).
TicksPerMicro == 4

-----------------------------------------------------------------------------
(* Number arithmetic *)

RECURSIVE Pow2(_)
Pow2(e) == IF e = 0 THEN 1 ELSE 2 * Pow2(e - 1)

\* Largest integer up to which every integer is a Number (2^53 in the source).
MaxExact == Pow2(MantBits)

\* The unit in the last place of the non-negative integer x: the least power
\* of two u with x < u * 2^MantBits.
RECURSIVE Ulp(_, _)
Ulp(x, u) == IF x < u * MaxExact THEN u ELSE Ulp(x, 2 * u)

\* Rounding of the exact non-negative integer x to a Number: to the nearest
\* multiple of its ulp, a tie to the multiple with the even significand.
Fl(x) ==
    LET u == Ulp(x, 1)
        q == x \div u
        r == x % u
    IN  IF 2 * r < u THEN q * u
        ELSE IF 2 * r > u THEN (q + 1) * u
        ELSE IF q % 2 = 0 THEN q * u ELSE (q + 1) * u

\* a + b, a * b of Numbers.
JSAdd(a, b) == Fl(a + b)
JSMul(a, b) == Fl(a * b)

\* a / 2 of a Number: halving is exact in binary floating point.  Every
\* dividend the program passes is an even integer (ProductEven below), so the
\* quotient is the integer a \div 2.
JSHalf(a) == a \div 2

\* Mutant of sumFormula: (n * n + 1) / 2, the parentheses around n + 1 lost.
sumFormula_LostParens(m) == JSHalf(JSAdd(JSMul(m, m), 1))

\* (n * (n + 1)) / 2, line 55.
sumFormula(m) == JSHalf(JSMul(m, JSAdd(m, 1)))

\* Number.prototype.toFixed(6) of a duration of d ticks, as the value of the
\* resulting string in units of 10^-6: the magnitude is rounded to the
\* nearest unit, a tie to the larger one, and the sign is put back
\* ("-0.000000" has the value 0).
toFixed6(d) ==
    LET a == IF d < 0 THEN -d ELSE d
        q == a \div TicksPerMicro
        r == a % TicksPerMicro
        m == IF 2 * r >= TicksPerMicro THEN q + 1 ELSE q
    IN  IF d < 0 THEN -m ELSE m

\* Math.abs
Abs(x) == IF x < 0 THEN -x ELSE x

-----------------------------------------------------------------------------
(* The program *)

\* const TESTED_VALUES, lines 11-14, scaled to the model's significand.
TESTED_VALUES == <<1, 4, 19, 28>>

\* A const of the callback that is not bound yet.
Unset == [time |-> 0, result |-> 0]

InitLocals ==
    /\ idx = 1
    /\ pc = "log_header"
    /\ func = "none"
    /\ now = 0
    /\ start = 0
    /\ n = 0
    /\ i = 0
    /\ total = 0
    /\ result = 0
    /\ iterativeResult = Unset
    /\ formulaResult = Unset
    /\ timeDifference = 0
    /\ fasterMethod = "none"
    /\ out = <<>>
    /\ calls = <<>>
    /\ bodyRuns = 0

Init ==
    /\ values = TESTED_VALUES
    /\ InitLocals

\* The script run on a one-element list holding any argument up to MaxN.
FnInit ==
    /\ values \in {<<m>> : m \in 0..MaxN}
    /\ InitLocals

N == values[idx]

\* Mutant of LogHeader: the callback measures sumFormula first and never
\* measures sumIterative.
LogHeader_FormulaFirst ==
    /\ pc = "log_header"
    /\ idx <= Len(values)
    /\ out' = Append(out, [kind |-> "tested", a |-> N, b |-> 0, label |-> "none"])
    /\ iterativeResult' = Unset
    /\ formulaResult' = Unset
    /\ timeDifference' = 0
    /\ fasterMethod' = "none"
    /\ func' = "sumFormula"
    /\ pc' = "measure_start"
    /\ UNCHANGED <<values, idx, now, start, n, i, total, result, calls, bodyRuns>>

\* Lines 59-60: forEach calls the callback on the next element, whose consts
\* are not bound yet; console.log of the tested value; then line 62 calls
\* measureExecTime(sumIterative, N).
LogHeader ==
    /\ pc = "log_header"
    /\ idx <= Len(values)
    /\ out' = Append(out, [kind |-> "tested", a |-> N, b |-> 0, label |-> "none"])
    /\ iterativeResult' = Unset
    /\ formulaResult' = Unset
    /\ timeDifference' = 0
    /\ fasterMethod' = "none"
    /\ func' = "sumIterative"
    /\ pc' = "measure_start"
    /\ UNCHANGED <<values, idx, now, start, n, i, total, result, calls, bodyRuns>>

\* Line 24: const start = performance.now().
MeasureStart ==
    /\ pc = "measure_start"
    /\ \E t \in now..(now + MaxElapsed) :
        /\ now' = t
        /\ start' = t
    /\ pc' = "call"
    /\ UNCHANGED <<values, idx, func, n, i, total, result, iterativeResult,
                   formulaResult, timeDifference, fasterMethod, out, calls, bodyRuns>>

\* Line 25, func = sumIterative: the call binds n; lines 41-42 initialise
\* total and i.
CallSumIterative ==
    /\ pc = "call"
    /\ func = "sumIterative"
    /\ n' = N
    /\ total' = 0
    /\ i' = 1
    /\ bodyRuns' = 0
    /\ calls' = Append(calls, [ev |-> "call", func |-> func, arg |-> N])
    /\ pc' = "loop"
    /\ UNCHANGED <<values, idx, func, now, start, result, iterativeResult,
                   formulaResult, timeDifference, fasterMethod, out>>

\* Mutant of LoopBody: i is incremented before it is added.
LoopBody_IncrementFirst ==
    /\ pc = "loop"
    /\ i <= n
    /\ i' = JSAdd(i, 1)
    /\ total' = JSAdd(total, i')
    /\ bodyRuns' = bodyRuns + 1
    /\ UNCHANGED <<values, idx, pc, func, now, start, n, result, iterativeResult,
                   formulaResult, timeDifference, fasterMethod, out, calls>>

\* Lines 42-44: one iteration, i <= n: total += i; i++.
LoopBody ==
    /\ pc = "loop"
    /\ i <= n
    /\ total' = JSAdd(total, i)
    /\ i' = JSAdd(i, 1)
    /\ bodyRuns' = bodyRuns + 1
    /\ UNCHANGED <<values, idx, pc, func, now, start, n, result, iterativeResult,
                   formulaResult, timeDifference, fasterMethod, out, calls>>

\* Lines 42, 45 and 25: the loop condition fails, sumIterative returns total
\* and measureExecTime binds it to result.
ReturnSumIterative ==
    /\ pc = "loop"
    /\ ~(i <= n)
    /\ result' = total
    /\ calls' = Append(calls, [ev |-> "return", func |-> func, arg |-> n])
    /\ pc' = "measure_end"
    /\ UNCHANGED <<values, idx, func, now, start, n, i, total, iterativeResult,
                   formulaResult, timeDifference, fasterMethod, out, bodyRuns>>

\* Line 25, func = sumFormula: call and return of lines 54-56.
CallSumFormula ==
    /\ pc = "call"
    /\ func = "sumFormula"
    /\ result' = sumFormula(N)
    /\ calls' = calls \o <<[ev |-> "call", func |-> func, arg |-> N],
                           [ev |-> "return", func |-> func, arg |-> N]>>
    /\ pc' = "measure_end"
    /\ UNCHANGED <<values, idx, func, now, start, n, i, total, iterativeResult,
                   formulaResult, timeDifference, fasterMethod, out, bodyRuns>>

\* Mutant of Measurement: start - end instead of end - start.
Measurement_Reversed(t) == [time |-> start - t, result |-> result]

\* The object measureExecTime returns, lines 28-31, for the end reading t
\* (time in ticks).
Measurement(t) == [time |-> t - start, result |-> result]

\* Mutant of MeasureEnd: the callback goes on to the report after the first
\* measurement, without measuring sumFormula.
MeasureEnd_SkipsFormula ==
    /\ pc = "measure_end"
    /\ \E t \in now..(now + MaxElapsed) :
        /\ now' = t
        /\ iterativeResult' = [time |-> t - start, result |-> result]
    /\ func' = "none"
    /\ pc' = "time_difference"
    /\ UNCHANGED <<values, idx, start, n, i, total, result, formulaResult,
                   timeDifference, fasterMethod, out, calls, bodyRuns>>

\* Lines 26-31: const end = performance.now(); return {time, result}.  The
\* callback binds it to iterativeResult (line 62) and goes on to measure
\* sumFormula, or binds it to formulaResult (line 63).
MeasureEnd ==
    /\ pc = "measure_end"
    /\ \E t \in now..(now + MaxElapsed) :
        /\ now' = t
        /\ IF func = "sumIterative"
           THEN /\ iterativeResult' = Measurement(t)
                /\ func' = "sumFormula"
                /\ pc' = "measure_start"
                /\ UNCHANGED formulaResult
           ELSE /\ formulaResult' = Measurement(t)
                /\ func' = "none"
                /\ pc' = "time_difference"
                /\ UNCHANGED iterativeResult
    /\ UNCHANGED <<values, idx, start, n, i, total, result, timeDifference,
                   fasterMethod, out, calls, bodyRuns>>

\* timeDifference > 0 ? "Formula" : "Iterative", line 66 (d is the value of
\* the toFixed(6) string).
Faster(d) == IF d > 0 THEN "Formula" ELSE "Iterative"

\* Lines 65-66.
TimeDifference ==
    /\ pc = "time_difference"
    /\ timeDifference' = toFixed6(iterativeResult.time - formulaResult.time)
    /\ fasterMethod' = Faster(timeDifference')
    /\ pc' = "log_difference"
    /\ UNCHANGED <<values, idx, func, now, start, n, i, total, result,
                   iterativeResult, formulaResult, out, calls, bodyRuns>>

\* Lines 68-72.
LogDifference ==
    /\ pc = "log_difference"
    /\ out' = Append(out, [kind |-> "difference", a |-> Abs(timeDifference),
                           b |-> 0, label |-> fasterMethod])
    /\ pc' = "log_consistency"
    /\ UNCHANGED <<values, idx, func, now, start, n, i, total, result,
                   iterativeResult, formulaResult, timeDifference, fasterMethod,
                   calls, bodyRuns>>

\* Mutant of Verdict: the warning shows the iterative value twice.
Verdict_SameValueTwice(ir, fr) ==
    IF ir.result # fr.result
    THEN [kind |-> "warning", a |-> ir.result, b |-> ir.result, label |-> "none"]
    ELSE [kind |-> "consistent", a |-> ir.result, b |-> 0, label |-> "none"]

\* The line printed by lines 74-82.
Verdict(ir, fr) ==
    IF ir.result # fr.result
    THEN [kind |-> "warning", a |-> ir.result, b |-> fr.result, label |-> "none"]
    ELSE [kind |-> "consistent", a |-> ir.result, b |-> 0, label |-> "none"]

\* Mutant of LogConsistency: a mismatch ends the run.
LogConsistency_StopsOnMismatch ==
    /\ pc = "log_consistency"
    /\ out' = Append(out, [kind |-> IF iterativeResult.result # formulaResult.result
                                      THEN "warning" ELSE "consistent",
                           a |-> iterativeResult.result,
                           b |-> formulaResult.result, label |-> "none"])
    /\ idx' = idx + 1
    /\ pc' = IF idx + 1 <= Len(values)
                 /\ iterativeResult.result = formulaResult.result
              THEN "log_header" ELSE "done"
    /\ UNCHANGED <<values, func, now, start, n, i, total, result, iterativeResult,
                   formulaResult, timeDifference, fasterMethod, calls, bodyRuns>>

\* Lines 74-83: the verdict is printed and the callback returns; forEach
\* moves to the next element or ends the script.  The consts of the returned
\* callback keep their last values until the next call rebinds them.
LogConsistency ==
    /\ pc = "log_consistency"
    /\ out' = Append(out, Verdict(iterativeResult, formulaResult))
    /\ idx' = idx + 1
    /\ pc' = IF idx + 1 <= Len(values) THEN "log_header" ELSE "done"
    /\ UNCHANGED <<values, func, now, start, n, i, total, result, iterativeResult,
                   formulaResult, timeDifference, fasterMethod, calls, bodyRuns>>

Next ==
    \/ LogHeader
    \/ MeasureStart
    \/ CallSumIterative
    \/ LoopBody
    \/ ReturnSumIterative
    \/ CallSumFormula
    \/ MeasureEnd
    \/ TimeDifference
    \/ LogDifference
    \/ LogConsistency

\* The script on TESTED_VALUES.
Spec == Init /\ [][Next]_vars

\* The script on TESTED_VALUES; a synchronous script keeps running while it
\* has a next step.
LiveSpec == Init /\ [][Next]_vars /\ WF_vars(Next)

\* The script on any one argument up to MaxN.
FnSpec == FnInit /\ [][Next]_vars

-----------------------------------------------------------------------------
(* Properties *)

\* The exact integer 1 + 2 + ... + m.
RECURSIVE Sum(_)
Sum(m) == IF m = 0 THEN 0 ELSE m + Sum(m - 1)

\* Both measurements of the current callback are bound.
BothMeasured == pc \in {"time_difference", "log_difference", "log_consistency"}

\* The block (element index) the j-th console line belongs to.
Block(j) == ((j - 1) \div 3) + 1

IsVerdict(line) == line.kind \in {"consistent", "warning"}

\* The dividend of line 55's division is always an even integer, so the
\* Number n * (n + 1) / 2 is the integer JSHalf computes.
ProductEven ==
    pc = "call" /\ func = "sumFormula" => JSMul(N, JSAdd(N, 1)) % 2 = 0

\* C1: for every n whose intermediate values (n + 1, n * (n + 1) and the
\* running totals) all stay within the exactly representable integers, the
\* value sumIterative returned equals the value sumFormula returned.
C1_IterativeEqualsFormula ==
    BothMeasured /\ N * (N + 1) <= MaxExact
        => iterativeResult.result = formulaResult.result

\* C1 witness: both functions have returned for an n >= 3 in the exact range.
C1_Witness ==
    /\ BothMeasured
    /\ N >= 3
    /\ N * (N + 1) <= MaxExact
    /\ iterativeResult.result = Sum(N)

\* C2 (as claimed): for every non-negative integer n, sumIterative(n) returns
\* the sum 1 + 2 + ... + n.
C2_SumIterativeIsSum ==
    pc = "measure_end" /\ func = "sumIterative" => result = Sum(n)

\* C3 (as claimed): for every non-negative integer n, sumFormula(n) returns
\* exactly n * (n + 1) / 2, an integer that was not rounded.
C3_SumFormulaIsExact ==
    pc = "measure_end" /\ func = "sumFormula" => 2 * result = N * (N + 1)

\* C4 (as claimed): the faster method is labelled "Formula" exactly when the
\* iterative duration exceeds the formula duration, and "Iterative" otherwise.
C4_FasterLabel ==
    pc = "log_difference" =>
        /\ fasterMethod \in {"Formula", "Iterative"}
        /\ fasterMethod = "Formula" <=> iterativeResult.time > formulaResult.time

\* C5: for every input the runner prints exactly one verdict line; it is the
\* "consistent" line exactly when the two results are equal, and otherwise
\* the warning, which shows the iterative value and the formula value.
C5_ConsistencyReport ==
    /\ Cardinality({j \in 1..Len(out) : IsVerdict(out[j])}) = Len(out) \div 3
    /\ \A j \in 1..Len(out) : IsVerdict(out[j]) <=> j % 3 = 0
    /\ pc \in {"log_header", "done"} /\ idx > 1 =>
        LET v == out[Len(out)]
        IN  /\ v.kind = "consistent" <=> iterativeResult.result = formulaResult.result
            /\ v.kind = "warning" <=> iterativeResult.result # formulaResult.result
            /\ v.kind = "warning" =>
                /\ v.a = iterativeResult.result
                /\ v.b = formulaResult.result

\* C5 witness: the run has printed a consistent verdict for one input and a
\* warning showing two different values for another.
C5_Witness ==
    /\ pc \in {"log_header", "done"}
    /\ \E j \in 1..Len(out) : out[j].kind = "consistent"
    /\ \E j \in 1..Len(out) : out[j].kind = "warning" /\ out[j].a # out[j].b

\* C6: when measureExecTime returns, the measured function has been called
\* exactly once with the given argument, `result` is the value it returned,
\* and `time` is the end reading minus the start reading, which is not
\* negative.
C6_MeasureExecTime ==
    /\ pc = "measure_start" /\ func = "sumFormula" =>
        /\ Len(calls) = 4 * (idx - 1) + 2
        /\ calls[Len(calls) - 1] = [ev |-> "call", func |-> "sumIterative", arg |-> N]
        /\ calls[Len(calls)] = [ev |-> "return", func |-> "sumIterative", arg |-> N]
        /\ iterativeResult.result = total
        /\ iterativeResult.time = now - start
        /\ iterativeResult.time >= 0
    /\ pc = "time_difference" =>
        /\ Len(calls) = 4 * idx
        /\ calls[Len(calls) - 1] = [ev |-> "call", func |-> "sumFormula", arg |-> N]
        /\ calls[Len(calls)] = [ev |-> "return", func |-> "sumFormula", arg |-> N]
        /\ formulaResult.result = sumFormula(N)
        /\ formulaResult.time = now - start
        /\ formulaResult.time >= 0

\* C6 witness: a measurement of sumIterative has returned a non-zero result
\* and a positive duration.
C6_Witness ==
    /\ pc = "measure_start"
    /\ func = "sumFormula"
    /\ iterativeResult.result > 1
    /\ iterativeResult.time > 0

\* The j-th call or return of a run: element by element in list order, and
\* for each element sumIterative's call and return, then sumFormula's.
ExpectedCall(j) ==
    LET k == ((j - 1) \div 4) + 1
        m == (j - 1) % 4
    IN  [ev |-> IF m \in {0, 2} THEN "call" ELSE "return",
         func |-> IF m \in {0, 1} THEN "sumIterative" ELSE "sumFormula",
         arg |-> values[k]]

\* C7: inputs are processed in list order, each to completion before the next
\* begins; for each input sumIterative is called first and has returned
\* before sumFormula is called, so the two runs never overlap.
C7_Ordering ==
    /\ \A j \in 1..Len(calls) : calls[j] = ExpectedCall(j)
    /\ \A j \in 1..Len(out) :
        out[j].kind = "tested" =>
            /\ j % 3 = 1
            /\ out[j].a = values[Block(j)]
            /\ Len(calls) >= 4 * (Block(j) - 1)
    /\ Len(calls) <= 4 * Block(Len(out))
    /\ Len(out) > 0 /\ Len(out) % 3 # 1 => Len(calls) = 4 * Block(Len(out))

\* C7 witness: the second input's sumFormula has been called after its
\* sumIterative returned and after the first input was reported.
C7_Witness ==
    /\ Len(calls) = 8
    /\ Len(out) = 4

\* C8 (as claimed): no output line of an input's block is emitted until both
\* strategy invocations for that input have finished.
C8_NoOutputBeforeRuns ==
    \A j \in 1..Len(out) : Len(calls) >= 4 * Block(j)

\* C8 (amended): the time-difference line and the verdict line of an input's
\* block are emitted only after both strategy invocations for that input have
\* returned; the block's first line, the tested value, is emitted before the
\* first of them is called.
C8_ReportAfterRuns ==
    /\ \A j \in 1..Len(out) :
        out[j].kind # "tested" => Len(calls) >= 4 * Block(j)
    /\ \A j \in 1..Len(calls) : Len(out) >= 3 * ((j - 1) \div 4) + 1
    /\ \A j \in 1..Len(out) : out[j].kind = "tested" <=> j % 3 = 1

\* C8 witness: the second input's difference line is out, after both of its
\* runs returned.
C8_Witness ==
    /\ Len(out) = 5
    /\ out[5].kind = "difference"
    /\ Len(calls) = 8

\* The run is over with one complete block per value of the list, in list
\* order, and every value's two strategies called once.
Finished ==
    /\ pc = "done"
    /\ Len(out) = 3 * Len(values)
    /\ Len(calls) = 4 * Len(values)
    /\ \A k \in 1..Len(values) :
        /\ out[3 * k - 2].kind = "tested"
        /\ out[3 * k - 2].a = values[k]
        /\ out[3 * k - 1].kind = "difference"
        /\ out[3 * k - 1].label \in {"Formula", "Iterative"}
        /\ IsVerdict(out[3 * k])
        /\ calls[4 * k - 3].arg = values[k]

\* C9: the run always eventually finishes having processed every value of
\* the list exactly once with one output block per value; a mismatch is only
\* printed and the remaining values are still processed.
C9_Termination == <>Finished

\* C9 witness: the run is over, an earlier value's verdict was a mismatch
\* warning, and the values after it were processed.
C9_Witness ==
    /\ Finished
    /\ \E k \in 1..(Len(values) - 1) : out[3 * k].kind = "warning"

\* C10: while every running total is exactly representable, at each
\* evaluation of the loop condition total = (i - 1) * i / 2 and
\* 1 <= i <= n + 1, i has grown by one per body execution, and the loop is
\* left with i = n + 1 after exactly n body executions.
C10_LoopInvariant ==
    Sum(n) <= MaxExact =>
        /\ pc = "loop" =>
            /\ 2 * total = (i - 1) * i
            /\ 1 <= i
            /\ i <= n + 1
            /\ i = bodyRuns + 1
        /\ pc = "measure_end" /\ func = "sumIterative" =>
            /\ i = n + 1
            /\ bodyRuns = n

\* C10 witness: the loop of an n >= 3 whose totals are exact is at its
\* condition for the last time, after n iterations.
C10_Witness ==
    /\ pc = "loop"
    /\ n >= 3
    /\ Sum(n) <= MaxExact
    /\ i = n + 1
    /\ bodyRuns = n

=============================================================================
